---- MODULE Spec2Model ----
(***************************************************************************)
(* A model of libkrimes' client-side Kerberos protocol logic:              *)
(*   src/src/proto.rs      request building and response decoding          *)
(*   src/src/proto/mod.rs  pre-auth data, hints ordering, names, keys      *)
(*   src/src/lib.rs        the record-marking TCP codec                    *)
(*                                                                         *)
(* The protocol core is a set of pure conversions.  Each specification     *)
(* below draws an input in its initial state and applies one operation of  *)
(* the library to it; the outcome is a value, a typed error, or a panic    *)
(* (expect / unwrap / todo! in the source).                                *)
(*                                                                         *)
(* Option<T> is a sequence of length at most one: <<>> is None, <<x>> is   *)
(* Some(x).                                                                *)
(***************************************************************************)
EXTENDS Integers, Sequences, FiniteSets, TLC

VARIABLES
    call,     \* the operation the behaviour exercises
    pc,       \* position of the caller: "start", intermediate steps, "done"
    input,    \* the operation's input
    result,   \* its outcome
    trace     \* what the operation did on the way to its outcome

vars == <<call, pc, input, result, trace>>

(***************************************************************************)
(* Outcomes.                                                               *)
(***************************************************************************)
Ok(v) == [kind |-> "ok", val |-> v]
Err(e) == [kind |-> "err", err |-> e]
Panic(at) == [kind |-> "panic", at |-> at]
NoOutcome == [kind |-> "none"]

None == <<>>
Some(x) == <<x>>

(***************************************************************************)
(* Bounds of the model.                                                    *)
(***************************************************************************)
\* pa-data items in the error-data of a KRB-ERROR
MaxEData == 2
\* hints in one ETYPE-INFO2 value of such an item
MaxEDataHints == 1

SeqsUpTo(S, n) == UNION {[1..k -> S] : k \in 0..n}

(***************************************************************************)
(* Wire constants (crate::asn1::constants, RFC 4120 / RFC 3962 values).    *)
(***************************************************************************)
Pvno == 5

KrbAsReq == 10
KrbAsRep == 11
KrbTgsReq == 12
KrbTgsRep == 13
KrbError == 30
\* the members of the KrbMessageType enumeration
KrbMessageTypes == {10, 11, 12, 13, 14, 15, 20, 21, 22, 30}

AES128_CTS_HMAC_SHA1_96 == 17
AES256_CTS_HMAC_SHA1_96 == 18
AES128_CTS_HMAC_SHA256_128 == 19
AES256_CTS_HMAC_SHA384_192 == 20
\* the members of the EncryptionType enumeration
EncryptionTypes == {1, 2, 3, 5, 7, 16, 17, 18, 19, 20, 23, 24, 25, 26}

KdcErrCPrincipalUnknown == 6
KdcErrPreauthFailed == 24
KdcErrPreauthRequired == 25
\* the members of the KrbErrorCode enumeration (RFC 4120 section 7.5.9)
KrbErrorCodes == (0 .. 52) \cup (60 .. 75)

PaTgsReq == 1
PaEncTimestamp == 2
PaEtypeInfo2 == 19
PaFxCookie == 133
PaFxFast == 136
\* the members of the PaDataType enumeration
PaDataTypes == {1, 2, 3, 11, 19, 133, 136}

(***************************************************************************)
(* KrbError: the library's typed errors (crate::error).                    *)
(***************************************************************************)
InvalidEnumValue(type, v) == [e |-> "InvalidEnumValue", type |-> type, value |-> v]
InvalidMessageType(found, expected) ==
    [e |-> "InvalidMessageType", found |-> found, expected |-> expected]
MissingPaData == [e |-> "MissingPaData"]
DerDecodePaData == [e |-> "DerDecodePaData"]
DerDecodeEtypeInfo2 == [e |-> "DerDecodeEtypeInfo2"]
UnsupportedEncryption == [e |-> "UnsupportedEncryption"]
PreauthInvalidS2KParams == [e |-> "PreauthInvalidS2KParams"]

\* der::Error values returned by KerberosResponse::decode itself
DerError(what) == [e |-> "der", what |-> what]
TagUnexpected(tag) == [e |-> "der", what |-> "TagUnexpected", actual |-> tag]

(***************************************************************************)
(* proto.rs: EncryptedData::try_from(KdcEncryptedData)                     *)
(***************************************************************************)
EncryptedData_try_from(enc_data) ==
    IF enc_data.etype \notin EncryptionTypes
    THEN Err(UnsupportedEncryption)
    ELSE IF enc_data.etype = AES256_CTS_HMAC_SHA1_96
         THEN Ok([variant |-> "Aes256CtsHmacSha196",
                  kvno |-> enc_data.kvno, data |-> enc_data.cipher])
         ELSE Err(UnsupportedEncryption)

(***************************************************************************)
(* proto.rs: KerberosPaRep::try_from(Vec<PaData>)                          *)
(* A padata_value is [kind |-> "etype_info2", seq |-> hints] when its      *)
(* octets are the DER of an ETYPE-INFO2, [kind |-> "opaque", ...] else.    *)
(***************************************************************************)
EmptyPaRep ==
    [pa_fx_fast |-> FALSE, enc_timestamp |-> FALSE,
     pa_fx_cookie |-> None, etype_info2 |-> <<>>]

\* the inner loop over one ETYPE-INFO2 sequence: the hints it pushes
RECURSIVE PaRepHints(_)
PaRepHints(seq) ==
    IF seq = <<>> THEN <<>>
    ELSE LET einfo2 == Head(seq) IN
         IF einfo2.etype \notin EncryptionTypes
         THEN PaRepHints(Tail(seq))
         ELSE IF einfo2.etype # AES256_CTS_HMAC_SHA1_96
         THEN PaRepHints(Tail(seq))
         ELSE <<[etype |-> einfo2.etype, salt |-> einfo2.salt,
                 s2kparams |-> einfo2.s2kparams]>> \o PaRepHints(Tail(seq))

RECURSIVE PaRepFold(_, _)
PaRepFold(pavec, acc) ==
    IF pavec = <<>> THEN Ok(acc)
    ELSE LET pa == Head(pavec)
             rest == Tail(pavec)
         IN  IF pa.padata_type \notin PaDataTypes
             THEN PaRepFold(rest, acc)
             ELSE IF pa.padata_type = PaEncTimestamp
             THEN PaRepFold(rest, [acc EXCEPT !.enc_timestamp = TRUE])
             ELSE IF pa.padata_type = PaEtypeInfo2
             THEN IF pa.padata_value.kind # "etype_info2"
                  THEN Err(DerDecodeEtypeInfo2)
                  ELSE PaRepFold(rest,
                         [acc EXCEPT !.etype_info2 = @ \o PaRepHints(pa.padata_value.seq)])
             ELSE IF pa.padata_type = PaFxFast
             THEN PaRepFold(rest, [acc EXCEPT !.pa_fx_fast = TRUE])
             ELSE IF pa.padata_type = PaFxCookie
             THEN PaRepFold(rest, [acc EXCEPT !.pa_fx_cookie = Some(pa.padata_value)])
             ELSE PaRepFold(rest, acc)

KerberosPaRep_try_from(pavec) == PaRepFold(pavec, EmptyPaRep)

(***************************************************************************)
(* proto.rs: KerberosAsRep::try_from(KdcRep)                               *)
(***************************************************************************)
KerberosAsRep_try_from(rep) ==
    IF rep.pvno # Pvno
    THEN Panic("todo!()")
    ELSE IF rep.msg_type \notin KrbMessageTypes
    THEN Err(InvalidEnumValue("KrbMessageType", rep.msg_type))
    ELSE IF rep.msg_type = KrbAsRep
    THEN LET enc_part == EncryptedData_try_from(rep.enc_part) IN
         IF enc_part.kind = "err"
         THEN enc_part
         ELSE Ok([client_realm |-> rep.crealm, client_name |-> rep.cname,
                  enc_part |-> enc_part.val])
    ELSE Err(InvalidMessageType(rep.msg_type, KrbAsRep))

(***************************************************************************)
(* proto.rs: KerberosTgsRep::try_from(KdcRep)                              *)
(***************************************************************************)
KerberosTgsRep_try_from(rep) ==
    IF rep.pvno # Pvno
    THEN Panic("todo!()")
    ELSE IF rep.msg_type \notin KrbMessageTypes
    THEN Err(InvalidEnumValue("KrbMessageType", rep.msg_type))
    ELSE IF rep.msg_type = KrbTgsRep
    THEN Ok([tgs_rep |-> "KerberosTgsRep"])
    ELSE Err(InvalidMessageType(rep.msg_type, KrbTgsRep))

(***************************************************************************)
(* proto.rs: KerberosErrRep::try_from(asn1 KrbError)                       *)
(* error_data is None, or Some of octets that are the DER of a METHOD-DATA *)
(* ([kind |-> "padata", pavec |-> ...]) or are not ([kind |-> "opaque"]).  *)
(***************************************************************************)
ErrRepPa(pa_rep) == [variant |-> "Pa", pa_rep |-> pa_rep]
ErrRepErr(err_code) == [variant |-> "Err", err_code |-> err_code]

\* mutant: the match on the error code has no KdcErrPreauthRequired arm
KerberosErrRep_try_from_NoPreauthArm(rep) ==
    IF rep.pvno # Pvno
    THEN Panic("todo!()")
    ELSE IF rep.msg_type \notin KrbMessageTypes
    THEN Err(InvalidEnumValue("KrbMessageType", rep.msg_type))
    ELSE IF rep.msg_type = KrbError
    THEN IF rep.error_code \notin KrbErrorCodes
         THEN Err(InvalidEnumValue("KrbErrorCode", rep.error_code))
         ELSE Ok(ErrRepErr(rep.error_code))
    ELSE Err(InvalidMessageType(rep.msg_type, KrbError))

KerberosErrRep_try_from(rep) ==
    IF rep.pvno # Pvno
    THEN Panic("todo!()")
    ELSE IF rep.msg_type \notin KrbMessageTypes
    THEN Err(InvalidEnumValue("KrbMessageType", rep.msg_type))
    ELSE IF rep.msg_type = KrbError
    THEN IF rep.error_code \notin KrbErrorCodes
         THEN Err(InvalidEnumValue("KrbErrorCode", rep.error_code))
         ELSE IF rep.error_code = KdcErrPreauthRequired
         THEN IF rep.error_data = None
              THEN Err(MissingPaData)
              ELSE LET edata == rep.error_data[1] IN
                   IF edata.kind # "padata"
                   THEN Err(DerDecodePaData)
                   ELSE LET pa_rep == KerberosPaRep_try_from(edata.pavec) IN
                        IF pa_rep.kind = "err"
                        THEN pa_rep
                        ELSE Ok(ErrRepPa(pa_rep.val))
         ELSE Ok(ErrRepErr(rep.error_code))
    ELSE Err(InvalidMessageType(rep.msg_type, KrbError))

(***************************************************************************)
(* proto.rs: <KerberosResponse as der::Decode>::decode                     *)
(* A message is its outer header and the octets after it.  hdr says how    *)
(* far the header can be read: "ok", "bad_len" (a tag but no readable      *)
(* length) or "bad_tag".  body.kind says which structure those octets are  *)
(* the DER of ("KdcRep", "KrbError") or "opaque" when neither.             *)
(***************************************************************************)
AppTag(n) == [class |-> "application", constructed |-> TRUE, number |-> n]

AsRep(as_rep) == [variant |-> "AsRep", as_rep |-> as_rep]
TgsRep(tgs_rep) == [variant |-> "TgsRep", tgs_rep |-> tgs_rep]
PaRep(pa_rep) == [variant |-> "PaRep", pa_rep |-> pa_rep]
ErrRep(err_code) == [variant |-> "ErrRep", err_code |-> err_code]

\* .expect(msg): the value of an Ok, a panic otherwise
Expect(r, msg) == IF r.kind = "ok" THEN r ELSE IF r.kind = "panic" THEN r ELSE Panic(msg)

\* What decode did besides returning: the match arm it took ("none" when it
\* returned before the match), the structure it decoded the body as, and the
\* outcome of the arm's try_from.
NoTrace == [arm |-> "none", read |-> "none", conv |-> NoOutcome]
Step(a, r, c, out) == [trace |-> [arm |-> a, read |-> r, conv |-> c], out |-> out]

DecodeAsRepArm(m) ==
    IF m.body.kind # "KdcRep"
    THEN Step("AsRep", "KdcRep", NoOutcome, Err(DerError("KdcRep")))
    ELSE LET conv_ == KerberosAsRep_try_from(m.body)
             as_rep == Expect(conv_, "Failed to parse as rep")
         IN  Step("AsRep", "KdcRep", conv_,
                  IF as_rep.kind = "panic" THEN as_rep ELSE Ok(AsRep(as_rep.val)))

DecodeTgsRepArm(m) ==
    IF m.body.kind # "KdcRep"
    THEN Step("TgsRep", "KdcRep", NoOutcome, Err(DerError("KdcRep")))
    ELSE LET conv_ == KerberosTgsRep_try_from(m.body)
             tgs_rep == Expect(conv_, "Failed to parse tgs rep")
         IN  Step("TgsRep", "KdcRep", conv_,
                  IF tgs_rep.kind = "panic" THEN tgs_rep ELSE Ok(TgsRep(tgs_rep.val)))

DecodeKrbErrorArm(m) ==
    IF m.body.kind # "KrbError"
    THEN Step("KrbError", "KrbError", NoOutcome, Err(DerError("KrbError")))
    ELSE LET conv_ == KerberosErrRep_try_from(m.body)
             err_rep == Expect(conv_, "Failed to parse err rep")
         IN  Step("KrbError", "KrbError", conv_,
                  IF err_rep.kind = "panic" THEN err_rep
                  ELSE IF err_rep.val.variant = "Pa"
                       THEN Ok(PaRep(err_rep.val.pa_rep))
                       ELSE Ok(ErrRep(err_rep.val.err_code)))

\* mutant: the match looks at the tag number only, not at class and form
KerberosResponse_decode_NumberOnly(m) ==
    IF m.hdr = "bad_tag" THEN Step("none", "none", NoOutcome, Err(DerError("Tag")))
    ELSE IF m.hdr = "bad_len" THEN Step("none", "none", NoOutcome, Err(DerError("Length")))
    ELSE IF m.tag.number = 11 THEN DecodeAsRepArm(m)
    ELSE IF m.tag.number = 13 THEN DecodeTgsRepArm(m)
    ELSE IF m.tag.number = 30 THEN DecodeKrbErrorArm(m)
    ELSE Step("other", "none", NoOutcome, Err(TagUnexpected(m.tag)))

KerberosResponse_decode(m) ==
    IF m.hdr = "bad_tag" THEN Step("none", "none", NoOutcome, Err(DerError("Tag")))
    ELSE IF m.hdr = "bad_len" THEN Step("none", "none", NoOutcome, Err(DerError("Length")))
    ELSE IF m.tag = AppTag(11) THEN DecodeAsRepArm(m)
    ELSE IF m.tag = AppTag(13) THEN DecodeTgsRepArm(m)
    ELSE IF m.tag = AppTag(30) THEN DecodeKrbErrorArm(m)
    ELSE Step("other", "none", NoOutcome, Err(TagUnexpected(m.tag)))

(***************************************************************************)
(* The messages a peer can send.                                           *)
(***************************************************************************)
\* ETYPE-INFO2 entries as the KDC sends them
EDataHintSamples ==
    { [etype |-> AES256_CTS_HMAC_SHA1_96, salt |-> Some("EXAMPLE.COMalice"), s2kparams |-> None],
      [etype |-> AES128_CTS_HMAC_SHA1_96, salt |-> None, s2kparams |-> Some(<<0, 0, 16, 0>>)] }

OpaqueValue == [kind |-> "opaque", bytes |-> <<222, 173>>]

EDataItems ==
    { [padata_type |-> t, padata_value |-> OpaqueValue] :
          t \in {PaEncTimestamp, PaEtypeInfo2, PaFxCookie, PaFxFast, PaTgsReq, 9999} }
    \cup
    { [padata_type |-> PaEtypeInfo2, padata_value |-> [kind |-> "etype_info2", seq |-> s]] :
          s \in SeqsUpTo(EDataHintSamples, MaxEDataHints) }

ErrorDatas ==
    {None, Some(OpaqueValue)}
    \cup {Some([kind |-> "padata", pavec |-> v]) : v \in SeqsUpTo(EDataItems, MaxEData)}

KdcRepBodies ==
    [kind : {"KdcRep"}, pvno : {4, Pvno}, msg_type : {KrbAsRep, KrbTgsRep, KrbError, 99},
     crealm : {"EXAMPLE.COM"}, cname : {"alice"},
     enc_part : [etype : {AES256_CTS_HMAC_SHA1_96, AES128_CTS_HMAC_SHA1_96, 99},
                 kvno : {Some(1)}, cipher : {<<202, 254>>}]]

KrbErrorBodies ==
    [kind : {"KrbError"}, pvno : {4, Pvno}, msg_type : {KrbError, KrbAsRep, 99},
     error_code : {KdcErrCPrincipalUnknown, KdcErrPreauthRequired, 1000},
     error_data : ErrorDatas]

OpaqueBody == [kind |-> "opaque"]

Tags ==
    {AppTag(11), AppTag(12), AppTag(13), AppTag(30),
     [class |-> "application", constructed |-> FALSE, number |-> 30],
     [class |-> "context", constructed |-> TRUE, number |-> 11]}

Messages ==
    [hdr : {"ok"}, tag : Tags, body : KdcRepBodies \cup KrbErrorBodies \cup {OpaqueBody}]
    \cup [hdr : {"bad_len"}, tag : Tags, body : {OpaqueBody}]
    \cup [hdr : {"bad_tag"}, tag : {[class |-> "none", constructed |-> FALSE, number |-> 0]},
          body : {OpaqueBody}]

(***************************************************************************)
(* Spec: a peer's message is decoded as a KerberosResponse.                *)
(***************************************************************************)
Init ==
    /\ call = "decode"
    /\ pc = "start"
    /\ input \in Messages
    /\ result = NoOutcome
    /\ trace = NoTrace

Decode ==
    /\ call = "decode"
    /\ pc = "start"
    /\ pc' = "done"
    /\ trace' = KerberosResponse_decode(input).trace
    /\ result' = KerberosResponse_decode(input).out
    /\ UNCHANGED <<call, input>>

Next == Decode

Spec == Init /\ [][Next]_vars

(***************************************************************************)
(* proto.rs: building an AS-REQ and taking it to the wire and back.        *)
(* A SystemTime is [secs, nanos] from the UNIX epoch.  KerberosTime holds  *)
(* whole seconds and cannot hold a time before the epoch.  Ia5String::new  *)
(* fails on a string with a character outside 7-bit ASCII.                 *)
(***************************************************************************)
NonIa5Strings == {"bj(U+00F8)rn"}
Ia5String_new(str) == IF str \in NonIa5Strings THEN Err("der::Error") ELSE Ok(str)

KerberosTime_from_system_time(t) ==
    IF t.secs < 0 THEN Err("der::Error") ELSE Ok([secs |-> t.secs])

KerberosRequest_build_asreq(client_name, service_name, from, until, renew) ==
    [client_name |-> client_name, service_name |-> service_name,
     from |-> from, until |-> until, renew |-> renew]

\* thread_rng().gen() is the second argument
KerberosAsReqBuilder_build(builder, nonce) ==
    [variant |-> "AsReq", nonce |-> nonce,
     client_name |-> builder.client_name, service_name |-> builder.service_name,
     from |-> builder.from, until |-> builder.until, renew |-> builder.renew]

\* Option<SystemTime>::map(|t| KerberosTime::from_system_time(t).expect(..))
MapTime(t) == IF t = None THEN None ELSE Some(KerberosTime_from_system_time(t[1]).val)
TimeFails(t) == t # None /\ KerberosTime_from_system_time(t[1]).kind = "err"

\* mutant: the commented-out encryption types are requested too
KerberosAsReq_to_asn_MoreEtypes(req) ==
    IF Ia5String_new(req.client_name).kind = "err" \/ Ia5String_new(req.service_name).kind = "err"
    THEN Panic("Result::unwrap() on an Err value")
    ELSE IF TimeFails(req.from) \/ TimeFails(Some(req.until)) \/ TimeFails(req.renew)
    THEN Panic("Failed to build KerberosTime from SystemTime")
    ELSE Ok([pvno |-> 5,
             msg_type |-> KrbAsReq,
             padata |-> None,
             req_body |->
               [kdc_options |-> 0,
                cname |-> Some([name_type |-> 1, name_string |-> <<req.client_name>>]),
                realm |-> "EXAMPLE.COM",
                sname |-> Some([name_type |-> 2,
                                name_string |-> <<req.service_name, "EXAMPLE.COM">>]),
                from |-> MapTime(req.from),
                till |-> KerberosTime_from_system_time(req.until).val,
                rtime |-> MapTime(req.renew),
                nonce |-> req.nonce,
                etype |-> <<AES256_CTS_HMAC_SHA1_96, AES128_CTS_HMAC_SHA256_128,
                            AES256_CTS_HMAC_SHA384_192>>,
                addresses |-> None,
                enc_authorization_data |-> None,
                additional_tickets |-> None]])

KerberosAsReq_to_asn(req) ==
    IF Ia5String_new(req.client_name).kind = "err" \/ Ia5String_new(req.service_name).kind = "err"
    THEN Panic("Result::unwrap() on an Err value")
    ELSE IF TimeFails(req.from) \/ TimeFails(Some(req.until)) \/ TimeFails(req.renew)
    THEN Panic("Failed to build KerberosTime from SystemTime")
    ELSE Ok([pvno |-> 5,
             msg_type |-> KrbAsReq,
             padata |-> None,
             req_body |->
               [kdc_options |-> 0,
                cname |-> Some([name_type |-> 1, name_string |-> <<req.client_name>>]),
                realm |-> "EXAMPLE.COM",
                sname |-> Some([name_type |-> 2,
                                name_string |-> <<req.service_name, "EXAMPLE.COM">>]),
                from |-> MapTime(req.from),
                till |-> KerberosTime_from_system_time(req.until).val,
                rtime |-> MapTime(req.renew),
                nonce |-> req.nonce,
                etype |-> <<AES256_CTS_HMAC_SHA1_96>>,
                addresses |-> None,
                enc_authorization_data |-> None,
                additional_tickets |-> None]])

\* KrbKdcReq::to_der(&KrbKdcReq::AsReq(..)): the KDC-REQ under [APPLICATION 10]
KerberosRequest_to_der(req) ==
    LET asn == KerberosAsReq_to_asn(req) IN
    IF asn.kind = "panic" THEN asn
    ELSE Ok([tag |-> AppTag(10), body |-> asn.val])

KerberosRequest_from_der(der) == Panic("todo!()")

\* what the caller wants to ask for; build_asreq has no realm parameter
SystemTimes ==
    { [secs |-> 1700003600, nanos |-> 0], [secs |-> 1700003600, nanos |-> 250000000],
      [secs |-> -1, nanos |-> 0] }

AsReqIntents ==
    [client_name : {"alice", "testuser", "bj(U+00F8)rn"},
     service_name : {"krbtgt", "bj(U+00F8)rn"},
     realm : {"EXAMPLE.COM", "OTHER.ORG"},
     from : {None} \cup {Some(t) : t \in SystemTimes},
     until : SystemTimes,
     renew : {None} \cup {Some(t) : t \in SystemTimes}]

\* values thread_rng().gen::<u32>() can return
Nonces == {0, 305419896, 2147483647}

(***************************************************************************)
(* SpecAsReq: an AS-REQ is built, encoded, and decoded back.               *)
(***************************************************************************)
InitAsReq ==
    /\ call = "asreq"
    /\ pc = "start"
    /\ input \in AsReqIntents
    /\ result = NoOutcome
    /\ trace = [req |-> NoOutcome, der |-> NoOutcome]

BuildAsReq ==
    /\ call = "asreq"
    /\ pc = "start"
    /\ \E nonce \in Nonces :
         trace' = [trace EXCEPT !.req =
                     KerberosAsReqBuilder_build(
                        KerberosRequest_build_asreq(input.client_name, input.service_name,
                                                    input.from, input.until, input.renew),
                        nonce)]
    /\ pc' = "built"
    /\ UNCHANGED <<call, input, result>>

ToDer ==
    /\ call = "asreq"
    /\ pc = "built"
    /\ trace' = [trace EXCEPT !.der = KerberosRequest_to_der(trace.req)]
    /\ pc' = "encoded"
    /\ UNCHANGED <<call, input, result>>

FromDer ==
    /\ call = "asreq"
    /\ pc = "encoded"
    /\ trace.der.kind = "ok"
    /\ result' = KerberosRequest_from_der(trace.der.val)
    /\ pc' = "done"
    /\ UNCHANGED <<call, input, trace>>

NextAsReq == BuildAsReq \/ ToDer \/ FromDer

SpecAsReq == InitAsReq /\ [][NextAsReq]_vars

(***************************************************************************)
(* proto/mod.rs: sort_cryptographic_strength and the sort that uses it.    *)
(* An EtypeInfo2 is [etype, salt, s2kparams], etype an EncryptionType.     *)
(***************************************************************************)
sort_cryptographic_strength(a, b) ==
    IF a.etype = AES256_CTS_HMAC_SHA1_96 THEN "Greater"
    ELSE IF b.etype = AES256_CTS_HMAC_SHA1_96 THEN "Less"
    ELSE IF a.etype = AES128_CTS_HMAC_SHA1_96 THEN "Greater"
    ELSE IF b.etype = AES128_CTS_HMAC_SHA1_96 THEN "Less"
    ELSE "Equal"

\* slice::sort_unstable_by(compare) orders the slice by
\* is_less(a, b) = (compare(a, b) == Ordering::Less) and promises nothing
\* about the relative order of elements neither of which is less than the
\* other: every arrangement in which no element is followed by one less
\* than it is a possible result.
is_less(a, b) == sort_cryptographic_strength(a, b) = "Less"

RemoveAt(v, i) == SubSeq(v, 1, i - 1) \o SubSeq(v, i + 1, Len(v))

\* first occurrences of the elements of v that no element of v is less than
MinimalAt(v) ==
    {i \in 1..Len(v) : /\ \A j \in 1..Len(v) : ~is_less(v[j], v[i])
                       /\ \A j \in 1..(i - 1) : v[j] # v[i]}

RECURSIVE sort_unstable_by(_)
sort_unstable_by(v) ==
    IF v = <<>> THEN {<<>>}
    ELSE UNION { {<<v[i]>> \o rest : rest \in sort_unstable_by(RemoveAt(v, i))} :
                 i \in MinimalAt(v) }

\* hints given to the sort
MaxSortLen == 3

SortHintSamples ==
    { [etype |-> AES256_CTS_HMAC_SHA1_96, salt |-> Some("EXAMPLE.COMalice"), s2kparams |-> None],
      [etype |-> AES256_CTS_HMAC_SHA1_96, salt |-> Some("EXAMPLE.COMbob"),
       s2kparams |-> Some(<<0, 0, 16, 0>>)],
      [etype |-> AES128_CTS_HMAC_SHA1_96, salt |-> None, s2kparams |-> None],
      [etype |-> 23, salt |-> None, s2kparams |-> None] }

(***************************************************************************)
(* SpecSort: a list of hints is sorted by cryptographic strength.          *)
(***************************************************************************)
InitSort ==
    /\ call = "sort"
    /\ pc = "start"
    /\ input \in SeqsUpTo(SortHintSamples, MaxSortLen)
    /\ result = NoOutcome
    /\ trace = NoTrace

SortHints ==
    /\ call = "sort"
    /\ pc = "start"
    /\ \E sorted \in sort_unstable_by(input) : result' = Ok(sorted)
    /\ pc' = "done"
    /\ UNCHANGED <<call, input, trace>>

NextSort == SortHints

SpecSort == InitSort /\ [][NextSort]_vars

\* mutant: one unsupported hint makes the whole ETYPE-INFO2 item be skipped
PreauthDataHints_DropItem(seq) ==
    IF \E i \in 1..Len(seq) : seq[i].etype # 18 THEN <<>>
    ELSE [i \in 1..Len(seq) |->
            [etype |-> seq[i].etype, salt |-> seq[i].salt, s2kparams |-> seq[i].s2kparams]]

(***************************************************************************)
(* proto/mod.rs: PreauthData::try_from(Vec<PaData>)                        *)
(***************************************************************************)
\* the inner loop over one ETYPE-INFO2 sequence: the hints it pushes
RECURSIVE PreauthDataHints(_)
PreauthDataHints(seq) ==
    IF seq = <<>> THEN <<>>
    ELSE LET einfo2 == Head(seq) IN
         IF einfo2.etype \notin EncryptionTypes
         THEN PreauthDataHints(Tail(seq))
         ELSE IF einfo2.etype # AES256_CTS_HMAC_SHA1_96
         THEN PreauthDataHints(Tail(seq))
         ELSE <<[etype |-> einfo2.etype, salt |-> einfo2.salt,
                 s2kparams |-> einfo2.s2kparams]>> \o PreauthDataHints(Tail(seq))

\* the loop over pavec: the accumulators at its end, or the error it returns
RECURSIVE PreauthDataFold(_, _)
PreauthDataFold(pavec, acc) ==
    IF pavec = <<>> THEN Ok(acc)
    ELSE LET pa == Head(pavec)
             rest == Tail(pavec)
         IN  IF pa.padata_type \notin PaDataTypes
             THEN PreauthDataFold(rest, acc)
             ELSE IF pa.padata_type = PaEncTimestamp
             THEN PreauthDataFold(rest, [acc EXCEPT !.enc_timestamp = TRUE])
             ELSE IF pa.padata_type = PaEtypeInfo2
             THEN IF pa.padata_value.kind # "etype_info2"
                  THEN Err(DerDecodeEtypeInfo2)
                  ELSE PreauthDataFold(rest,
                         [acc EXCEPT !.etype_info2 = @ \o PreauthDataHints(pa.padata_value.seq)])
             ELSE IF pa.padata_type = PaFxFast
             THEN PreauthDataFold(rest, [acc EXCEPT !.pa_fx_fast = TRUE])
             ELSE IF pa.padata_type = PaFxCookie
             THEN PreauthDataFold(rest, [acc EXCEPT !.pa_fx_cookie = Some(pa.padata_value)])
             ELSE PreauthDataFold(rest, acc)

\* the outcomes try_from can return for pavec
PreauthData_try_from(pavec) ==
    LET folded == PreauthDataFold(pavec, EmptyPaRep) IN
    IF folded.kind = "err" THEN {folded}
    ELSE { Ok([folded.val EXCEPT !.etype_info2 = sorted]) :
             sorted \in sort_unstable_by(folded.val.etype_info2) }

\* pa-data items in the sequence a KDC sends
MaxPaData == 2
\* hints in one ETYPE-INFO2 value
MaxHints == 2

\* ETYPE-INFO2 entries as the KDC sends them
WireHintSamples ==
    { [etype |-> AES256_CTS_HMAC_SHA1_96, salt |-> Some("EXAMPLE.COMalice"), s2kparams |-> None],
      [etype |-> AES256_CTS_HMAC_SHA1_96, salt |-> Some("EXAMPLE.COMbob"),
       s2kparams |-> Some(<<0, 0, 16, 0>>)],
      [etype |-> AES256_CTS_HMAC_SHA1_96, salt |-> None, s2kparams |-> Some(<<16, 0>>)],
      [etype |-> AES128_CTS_HMAC_SHA1_96, salt |-> None, s2kparams |-> None],
      [etype |-> 9999, salt |-> None, s2kparams |-> None] }

PaDataItems ==
    { [padata_type |-> t, padata_value |-> OpaqueValue] :
          t \in {PaEncTimestamp, PaEtypeInfo2, PaFxCookie, PaFxFast, PaTgsReq, 9999} }
    \cup
    { [padata_type |-> PaEtypeInfo2, padata_value |-> [kind |-> "etype_info2", seq |-> hints]] :
          hints \in SeqsUpTo(WireHintSamples, MaxHints) }

(***************************************************************************)
(* SpecPreauth: the pre-auth data of a KDC is parsed, into a PreauthData   *)
(* (call "preauth") or into a KerberosPaRep (call "parep").                *)
(***************************************************************************)
InitPreauth ==
    /\ call \in {"preauth", "parep"}
    /\ pc = "start"
    /\ input \in SeqsUpTo(PaDataItems, MaxPaData)
    /\ result = NoOutcome
    /\ trace = NoTrace

ParsePreauth ==
    /\ call = "preauth"
    /\ pc = "start"
    /\ \E outcome \in PreauthData_try_from(input) : result' = outcome
    /\ pc' = "done"
    /\ UNCHANGED <<call, input, trace>>

ParsePaRep ==
    /\ call = "parep"
    /\ pc = "start"
    /\ result' = KerberosPaRep_try_from(input)
    /\ pc' = "done"
    /\ UNCHANGED <<call, input, trace>>

NextPreauth == ParsePreauth \/ ParsePaRep

SpecPreauth == InitPreauth /\ [][NextPreauth]_vars

(***************************************************************************)
(* Claims about response decoding (specification Spec).                    *)
(***************************************************************************)
Decoded == call = "decode" /\ pc = "done"

\* the message is a readable KRB-ERROR: outer tag [APPLICATION 30], body a KRB-ERROR
IsKrbErrorMessage ==
    /\ input.hdr = "ok"
    /\ input.tag.class = "application" /\ input.tag.constructed /\ input.tag.number = 30
    /\ input.body.kind = "KrbError"

\* ... with pvno 5, message type KRB_ERROR and error code KDC_ERR_PREAUTH_REQUIRED
IsPreauthRequired ==
    /\ IsKrbErrorMessage
    /\ input.body.pvno = 5
    /\ input.body.msg_type = KrbError
    /\ input.body.error_code = KdcErrPreauthRequired

\* ... whose error-data decodes as a pre-auth-data sequence
HasPaDataSequence ==
    /\ IsPreauthRequired
    /\ input.body.error_data # None
    /\ input.body.error_data[1].kind = "padata"

ItemsOfType(pavec, t) == {i \in 1..Len(pavec) : pavec[i].padata_type = t}
LastOf(S) == CHOOSE i \in S : \A j \in S : j <= i

RECURSIVE AllHintsOf(_)
AllHintsOf(pavec) ==
    IF pavec = <<>> THEN <<>>
    ELSE (IF Head(pavec).padata_type = PaEtypeInfo2 /\ Head(pavec).padata_value.kind = "etype_info2"
          THEN Head(pavec).padata_value.seq ELSE <<>>) \o AllHintsOf(Tail(pavec))

IsAes256Hint(h) == h.etype = 18

\* pa_rep is the challenge the sequence pavec describes
BuiltFrom(pa_rep, pavec) ==
    /\ pa_rep.enc_timestamp = (ItemsOfType(pavec, PaEncTimestamp) # {})
    /\ pa_rep.pa_fx_fast = (ItemsOfType(pavec, PaFxFast) # {})
    /\ pa_rep.pa_fx_cookie =
         (IF ItemsOfType(pavec, PaFxCookie) = {} THEN None
          ELSE Some(pavec[LastOf(ItemsOfType(pavec, PaFxCookie))].padata_value))
    /\ pa_rep.etype_info2 = SelectSeq(AllHintsOf(pavec), IsAes256Hint)

IsPaRepBuiltFromEData ==
    /\ result.kind = "ok"
    /\ result.val.variant = "PaRep"
    /\ BuiltFrom(result.val.pa_rep, input.body.error_data[1].pavec)

\* every ETYPE-INFO2 item of the sequence holds the DER of an ETYPE-INFO2
EtypeInfo2ItemsDecode ==
    \A i \in ItemsOfType(input.body.error_data[1].pavec, PaEtypeInfo2) :
        input.body.error_data[1].pavec[i].padata_value.kind = "etype_info2"

\* C1 as stated: every KRB-ERROR (tag 30) with pvno 5, type KRB_ERROR, code
\* KDC_ERR_PREAUTH_REQUIRED and an error-data that decodes as a pre-auth-data
\* sequence decodes to KerberosResponse::PaRep built from that sequence.
C1_PaRepForEveryPaDataSequence ==
    (Decoded /\ HasPaDataSequence) => IsPaRepBuiltFromEData

\* C1 as amended: the same, for sequences whose ETYPE-INFO2 items all hold a
\* decodable ETYPE-INFO2 value: the response is PaRep built from the sequence
\* (so never ErrRep, an error or a panic).
C1_PaRepForDecodablePaData ==
    (Decoded /\ HasPaDataSequence /\ EtypeInfo2ItemsDecode) => IsPaRepBuiltFromEData

\* C1's case: a PREAUTH_REQUIRED error carrying a cookie and an AES256 hint came back as PaRep
C1_Witness ==
    /\ Decoded /\ HasPaDataSequence /\ EtypeInfo2ItemsDecode
    /\ result.kind = "ok" /\ result.val.variant = "PaRep"
    /\ result.val.pa_rep.etype_info2 # <<>>
    /\ result.val.pa_rep.pa_fx_cookie # None

\* C2: whatever the peer sends, decoding ends in a response or a typed error,
\* never in a panic.
C2_DecodeNeverPanics ==
    Decoded => result.kind \in {"ok", "err"}

\* C3: the reply kind is selected by the outer tag alone: [APPLICATION 11]
\* constructed is handled as AS-REP, 13 as TGS-REP, 30 as KRB-ERROR; every
\* other tag ends in the unexpected-tag error with no body decoded and no
\* conversion run.  (Messages whose outer tag and length can be read.)
C3_TagSelectsReplyKind ==
    (Decoded /\ input.hdr = "ok") =>
        LET app == input.tag.class = "application" /\ input.tag.constructed
            n == input.tag.number
        IN  /\ trace.arm = (IF app /\ n = 11 THEN "AsRep"
                            ELSE IF app /\ n = 13 THEN "TgsRep"
                            ELSE IF app /\ n = 30 THEN "KrbError"
                            ELSE "other")
            /\ trace.arm = "AsRep" =>
                 /\ trace.read = "KdcRep"
                 /\ result.kind = "ok" => result.val.variant = "AsRep"
            /\ trace.arm = "TgsRep" =>
                 /\ trace.read = "KdcRep"
                 /\ result.kind = "ok" => result.val.variant = "TgsRep"
            /\ trace.arm = "KrbError" =>
                 /\ trace.read = "KrbError"
                 /\ result.kind = "ok" => result.val.variant \in {"PaRep", "ErrRep"}
            /\ trace.arm = "other" =>
                 /\ result = Err(TagUnexpected(input.tag))
                 /\ trace.read = "none"
                 /\ trace.conv = NoOutcome

\* C3's case: a primitive [APPLICATION 30] tag in front of a well-formed
\* KRB-ERROR body was refused as an unexpected tag
C3_Witness ==
    /\ Decoded /\ input.hdr = "ok"
    /\ input.tag.number = 30 /\ ~input.tag.constructed
    /\ input.body.kind = "KrbError"
    /\ result.kind = "err" /\ result.err.what = "TagUnexpected"

\* C4: a KRB-ERROR with code KDC_ERR_PREAUTH_REQUIRED and no error-data makes
\* response decoding return the missing-pre-auth-data error to its caller.
C4_MissingPaDataReturned ==
    (Decoded /\ IsPreauthRequired /\ input.body.error_data = None) =>
        (result.kind = "err" /\ result.err = MissingPaData)

\* C5: a KRB-ERROR whose error code is outside the error-code enumeration
\* makes response decoding return the unknown-error-code error carrying the
\* raw value to its caller.
C5_UnknownErrorCodeReturned ==
    (/\ Decoded /\ IsKrbErrorMessage
     /\ input.body.pvno = 5 /\ input.body.msg_type = KrbError
     /\ input.body.error_code \notin KrbErrorCodes) =>
        (result.kind = "err" /\ result.err = InvalidEnumValue("KrbErrorCode", input.body.error_code))

ExpectedMsgType == 
    IF trace.arm = "AsRep" THEN KrbAsRep ELSE IF trace.arm = "TgsRep" THEN KrbTgsRep ELSE KrbError

\* C6: for each reply kind, the conversion of a message whose pvno is not 5
\* or whose message type is not the one expected for the kind ends in the
\* wrong-message-type error reporting the found and the expected type.
C6_WrongVersionOrTypeRejected ==
    (/\ Decoded /\ trace.arm \in {"AsRep", "TgsRep", "KrbError"}
     /\ input.body.kind = trace.read
     /\ (input.body.pvno # 5 \/ input.body.msg_type # ExpectedMsgType)) =>
        (/\ trace.conv.kind = "err"
         /\ trace.conv.err = InvalidMessageType(input.body.msg_type, ExpectedMsgType))

(***************************************************************************)
(* Claims about the AS-REQ (specification SpecAsReq).                      *)
(***************************************************************************)
\* C7: every AS-REQ that build_asreq(..).build() produces and to_der takes
\* to its wire structure requests exactly the encryption types [18], with
\* pvno 5 and message type AS-REQ (10).
C7_AsReqAdvertisesOnlyAes256 ==
    (call = "asreq" /\ pc \in {"encoded", "done"} /\ trace.der.kind = "ok") =>
        /\ trace.der.val.body.req_body.etype = <<18>>
        /\ trace.der.val.body.pvno = 5
        /\ trace.der.val.body.msg_type = 10

\* C7's case: a request for alice / krbtgt was built and converted
C7_Witness ==
    /\ call = "asreq" /\ pc = "encoded" /\ trace.der.kind = "ok"
    /\ input.client_name = "alice" /\ input.service_name = "krbtgt"
    /\ trace.der.val.body.req_body.nonce = 2147483647

\* C8: the AS-REQ built from a client name, service name, realm and times,
\* encoded and decoded back through KerberosRequest::from_der, carries the
\* nonce that build generated, the same names, the caller's realm and the
\* same till-time, and from/renew times exactly when supplied.
C8_AsReqRoundTrip ==
    (call = "asreq" /\ pc = "done") =>
        /\ result.kind = "ok"
        /\ result.val.nonce = trace.req.nonce
        /\ result.val.client_name = input.client_name
        /\ result.val.service_name = input.service_name
        /\ result.val.realm = input.realm
        /\ result.val.until = input.until
        /\ result.val.from = input.from
        /\ result.val.renew = input.renew

(***************************************************************************)
(* Claims about the order of hints (SpecSort, SpecPreauth).                *)
(***************************************************************************)
\* strength rank of a hint: AES256-CTS-HMAC-SHA1-96 over AES128-CTS-HMAC-SHA1-96 over the rest
Strength(h) == IF h.etype = 18 THEN 2 ELSE IF h.etype = 17 THEN 1 ELSE 0

\* C9: sorting any list of hints with the strength comparator yields a list
\* ordered strongest-first: every AES256 hint before every AES128 hint, those
\* before every other hint; if the list holds an AES256 hint, the first
\* element of the result is an AES256 hint.
C9_SortedStrongestFirst ==
    (call = "sort" /\ pc = "done") =>
        /\ \A i, j \in 1..Len(result.val) :
             i < j => Strength(result.val[i]) >= Strength(result.val[j])
        /\ (\E i \in 1..Len(input) : input[i].etype = 18) => result.val[1].etype = 18

\* the AES256 hints of the KDC's pre-auth data, in the KDC's order
RetainedHints(pavec) == SelectSeq(AllHintsOf(pavec), IsAes256Hint)

ParsedPaData == call \in {"preauth", "parep"} /\ pc = "done"

IsHintList(pa) == pa.padata_type = PaEtypeInfo2 /\ pa.padata_value.kind = "etype_info2"

HasKnownType(pa) == pa.padata_type \in PaDataTypes

\* one item without its hints of an unsupported encryption type
WithoutUnsupportedHints(pa) ==
    IF IsHintList(pa)
    THEN [pa EXCEPT !.padata_value.seq = SelectSeq(@, IsAes256Hint)]
    ELSE pa

RECURSIVE MapItems(_)
MapItems(pavec) ==
    IF pavec = <<>> THEN <<>>
    ELSE <<WithoutUnsupportedHints(Head(pavec))>> \o MapItems(Tail(pavec))

\* the sequence without its items of unrecognized type and without its
\* hints of unsupported encryption type
WithoutUnknown(pavec) == MapItems(SelectSeq(pavec, HasKnownType))

Count(seq, x) == Cardinality({i \in 1..Len(seq) : seq[i] = x})

SameHints(a, b) ==
    /\ Len(a) = Len(b)
    /\ \A i \in 1..Len(a) : Count(a, a[i]) = Count(b, a[i])

\* C11: parsing a pre-auth-data sequence gives what parsing the sequence
\* without its items of unrecognized type and without its hints of
\* unsupported encryption type gives; it fails only if one of the remaining
\* ETYPE-INFO2 items does not decode, and when it succeeds the flags, the
\* cookie and the supported hints of the remaining items are all kept.
C11_UnknownItemsAndHintsFiltered ==
    ParsedPaData =>
        LET kept == WithoutUnknown(input) IN
        /\ call = "preauth" => result \in PreauthData_try_from(kept)
        /\ call = "parep" => result = KerberosPaRep_try_from(kept)
        /\ result.kind \in {"ok", "err"}
        /\ result.kind = "err" =>
              \E i \in ItemsOfType(kept, PaEtypeInfo2) : ~IsHintList(kept[i])
        /\ result.kind = "ok" =>
              /\ BuiltFrom([result.val EXCEPT !.etype_info2 = AllHintsOf(kept)], kept)
              /\ SameHints(result.val.etype_info2, AllHintsOf(kept))
              /\ call = "parep" => result.val.etype_info2 = AllHintsOf(kept)

C11_Witness ==
    /\ ParsedPaData
    /\ call = "preauth"
    /\ result.kind = "ok"
    /\ \E i \in 1..Len(input) : ~HasKnownType(input[i])
    /\ \E i \in 1..Len(input) :
          /\ IsHintList(input[i])
          /\ \E j, k \in 1..Len(input[i].padata_value.seq) :
                /\ ~IsAes256Hint(input[i].padata_value.seq[j])
                /\ IsAes256Hint(input[i].padata_value.seq[k])
    /\ result.val.etype_info2 # <<>>
    /\ Len(WithoutUnknown(input)) < Len(input)

\* an AES256 hint whose s2kparams is present and not 4 octets long
HasMalformedS2k(h) ==
    IsAes256Hint(h) /\ h.s2kparams # None /\ Len(h.s2kparams[1]) # 4

\* C12: parsing pre-auth data that holds an AES256 hint whose s2kparams is
\* present with a length other than 4 octets fails with the
\* invalid-iteration-parameters error; no such hint is in a parsed result.
C12_MalformedS2kRejectedAtParse ==
    ParsedPaData =>
        /\ (\E i \in 1..Len(AllHintsOf(input)) : HasMalformedS2k(AllHintsOf(input)[i]))
              => result = Err(PreauthInvalidS2KParams)
        /\ result.kind = "ok" =>
              \A i \in 1..Len(result.val.etype_info2) :
                  ~HasMalformedS2k(result.val.etype_info2[i])

(***************************************************************************)
(* proto/mod.rs: DerivedKey, SessionKey and the conversions that must act  *)
(* on one concrete algorithm.                                              *)
(***************************************************************************)
InvalidEncryptionKey == [e |-> "InvalidEncryptionKey"]

\* crate::constants
AES_256_KEY_LEN == 32
RFC_PKBDF2_SHA1_ITER == 4096

\* the number of PBKDF2 rounds an iteration count stands for: hi * 2^32 + lo
\* (a count of 0 stands for 2^32)
Rounds(iter_count) ==
    IF iter_count = 0 THEN [hi |-> 1, lo |-> 0] ELSE [hi |-> 0, lo |-> iter_count]

\* crate::crypto: the string-to-key function; the key is kept as the triple
\* that determines it
derive_key_aes256_cts_hmac_sha1_96(passphrase, salt, iter_count) ==
    Ok([passphrase |-> passphrase, salt |-> salt, rounds |-> Rounds(iter_count)])

\* u32::from_be_bytes / u32::from_le_bytes on four octets (the first octet of
\* the inputs drawn below is under 128, so that the value is below 2^31)
u32_from_be_bytes(b) == (((b[1] * 256 + b[2]) * 256 + b[3]) * 256 + b[4])
u32_from_le_bytes(b) == (((b[4] * 256 + b[3]) * 256 + b[2]) * 256 + b[1])

Aes256DerivedKey(k, i, s) == [variant |-> "Aes256CtsHmacSha196", k |-> k, i |-> i, s |-> s]

\* .map(|k| DerivedKey::Aes256CtsHmacSha196 { k, i, s })
MapDerivedKey(r, i, s) == IF r.kind = "ok" THEN Ok(Aes256DerivedKey(r.val, i, s)) ELSE r

\* Option::unwrap_or
unwrap_or(opt, default) == IF opt = None THEN default ELSE opt[1]

\* .filter(AES256).next() over the optional slice
FirstAes256(pa_data_etype_info2) ==
    IF pa_data_etype_info2 = None THEN None
    ELSE LET found == SelectSeq(pa_data_etype_info2[1],
                                LAMBDA h : h.etype = AES256_CTS_HMAC_SHA1_96)
         IN  IF found = <<>> THEN None ELSE Some(found[1])

\* mutant: a malformed s2kparams falls back to the default iteration count
DerivedKey_from_encrypted_reply_Fallback(encrypted_data, pa_data_etype_info2, realm, username, passphrase) ==
    LET maybe_etype_info2 == FirstAes256(pa_data_etype_info2)
        salt == IF maybe_etype_info2 = None THEN realm \o username
                ELSE unwrap_or(maybe_etype_info2[1].salt, realm \o username)
        iter_count ==
            IF maybe_etype_info2 = None \/ maybe_etype_info2[1].s2kparams = None
               \/ Len(maybe_etype_info2[1].s2kparams[1]) # 4
            THEN RFC_PKBDF2_SHA1_ITER
            ELSE u32_from_be_bytes(maybe_etype_info2[1].s2kparams[1])
    IN  MapDerivedKey(derive_key_aes256_cts_hmac_sha1_96(passphrase, salt, iter_count),
                      iter_count, salt)

DerivedKey_from_encrypted_reply(encrypted_data, pa_data_etype_info2, realm, username, passphrase) ==
    IF encrypted_data.variant = "Aes256CtsHmacSha196"
    THEN LET maybe_etype_info2 == FirstAes256(pa_data_etype_info2)
             etype_info2 == maybe_etype_info2[1]
         IN  IF maybe_etype_info2 # None /\ etype_info2.s2kparams # None
                /\ Len(etype_info2.s2kparams[1]) # 4
             THEN Err(PreauthInvalidS2KParams)
             ELSE LET pair ==
                          IF maybe_etype_info2 # None
                          THEN [salt |-> etype_info2.salt,
                                iter_count |->
                                    IF etype_info2.s2kparams # None
                                    THEN Some(u32_from_be_bytes(etype_info2.s2kparams[1]))
                                    ELSE None]
                          ELSE [salt |-> None, iter_count |-> None]
                      salt == unwrap_or(pair.salt, realm \o username)
                      iter_count == unwrap_or(pair.iter_count, RFC_PKBDF2_SHA1_ITER)
                  IN  MapDerivedKey(
                          derive_key_aes256_cts_hmac_sha1_96(passphrase, salt, iter_count),
                          iter_count, salt)
    ELSE Err(UnsupportedEncryption)

\* mutant: the four octets are read little-endian
DerivedKey_from_etype_info2_LittleEndian(etype_info2, realm, username, passphrase) ==
    LET salt == unwrap_or(etype_info2.salt, realm \o username) IN
    IF etype_info2.etype = AES256_CTS_HMAC_SHA1_96
    THEN IF etype_info2.s2kparams # None /\ Len(etype_info2.s2kparams[1]) # 4
         THEN Err(PreauthInvalidS2KParams)
         ELSE LET iter_count == IF etype_info2.s2kparams # None
                                THEN u32_from_le_bytes(etype_info2.s2kparams[1])
                                ELSE RFC_PKBDF2_SHA1_ITER
              IN  MapDerivedKey(
                      derive_key_aes256_cts_hmac_sha1_96(passphrase, salt, iter_count),
                      iter_count, salt)
    ELSE Err(UnsupportedEncryption)

\* mutant: an iteration count of zero is taken for an absent one
DerivedKey_from_etype_info2_ZeroIsDefault(etype_info2, realm, username, passphrase) ==
    LET salt == unwrap_or(etype_info2.salt, realm \o username) IN
    IF etype_info2.etype = AES256_CTS_HMAC_SHA1_96
    THEN IF etype_info2.s2kparams # None /\ Len(etype_info2.s2kparams[1]) # 4
         THEN Err(PreauthInvalidS2KParams)
         ELSE LET iter_count == IF etype_info2.s2kparams # None
                                   /\ u32_from_be_bytes(etype_info2.s2kparams[1]) # 0
                                THEN u32_from_be_bytes(etype_info2.s2kparams[1])
                                ELSE RFC_PKBDF2_SHA1_ITER
              IN  MapDerivedKey(
                      derive_key_aes256_cts_hmac_sha1_96(passphrase, salt, iter_count),
                      iter_count, salt)
    ELSE Err(UnsupportedEncryption)

DerivedKey_from_etype_info2(etype_info2, realm, username, passphrase) ==
    LET salt == unwrap_or(etype_info2.salt, realm \o username) IN
    IF etype_info2.etype = AES256_CTS_HMAC_SHA1_96
    THEN IF etype_info2.s2kparams # None /\ Len(etype_info2.s2kparams[1]) # 4
         THEN Err(PreauthInvalidS2KParams)
         ELSE LET iter_count == IF etype_info2.s2kparams # None
                                THEN u32_from_be_bytes(etype_info2.s2kparams[1])
                                ELSE RFC_PKBDF2_SHA1_ITER
              IN  MapDerivedKey(
                      derive_key_aes256_cts_hmac_sha1_96(passphrase, salt, iter_count),
                      iter_count, salt)
    ELSE Err(UnsupportedEncryption)

\* mutant: every AES encryption type is taken for the supported one
EncryptedData_try_from_KdcEncryptedData_AnyAes(enc_data) ==
    IF enc_data.etype \in {17, 18, 19, 20}
    THEN Ok([variant |-> "Aes256CtsHmacSha196",
             kvno |-> enc_data.kvno, data |-> enc_data.cipher])
    ELSE Err(UnsupportedEncryption)

\* proto/mod.rs: EncryptedData::try_from(KdcEncryptedData)
EncryptedData_try_from_KdcEncryptedData(enc_data) ==
    IF enc_data.etype \notin EncryptionTypes
    THEN Err(UnsupportedEncryption)
    ELSE IF enc_data.etype = AES256_CTS_HMAC_SHA1_96
         THEN Ok([variant |-> "Aes256CtsHmacSha196",
                  kvno |-> enc_data.kvno, data |-> enc_data.cipher])
         ELSE Err(UnsupportedEncryption)

\* proto/mod.rs: SessionKey::try_from(KdcEncryptionKey)
SessionKey_try_from(kdc_key) ==
    IF kdc_key.key_type \notin EncryptionTypes
    THEN Err(UnsupportedEncryption)
    ELSE IF kdc_key.key_type = AES256_CTS_HMAC_SHA1_96
         THEN IF Len(kdc_key.key_value) = AES_256_KEY_LEN
              THEN Ok([variant |-> "Aes256CtsHmacSha196", k |-> kdc_key.key_value])
              ELSE Err(InvalidEncryptionKey)
         ELSE Err(UnsupportedEncryption)

\* hints in the list handed to from_encrypted_reply
MaxKeyHints == 2

Realms == {"EXAMPLE.COM"}
Usernames == {"alice", "bob"}
Passphrases == {"Password123"}

S2kParamSamples ==
    { None, Some(<<0, 0, 16, 0>>), Some(<<0, 1, 0, 2>>), Some(<<0, 0, 0, 0>>),
      Some(<<>>), Some(<<16, 0>>), Some(<<0, 0, 0, 16, 0>>) }

\* EtypeInfo2 values: etype is an EncryptionType
KeyHintSamples ==
    { [etype |-> AES256_CTS_HMAC_SHA1_96, salt |-> salt, s2kparams |-> s2k] :
          salt \in {None, Some("EXAMPLE.ORGcarol")}, s2k \in S2kParamSamples }
    \cup
    { [etype |-> e, salt |-> Some("EXAMPLE.COMdave"), s2kparams |-> None] :
          e \in {AES128_CTS_HMAC_SHA1_96, 23} }

EncryptedDataSamples ==
    { [variant |-> "Aes256CtsHmacSha196", kvno |-> None, data |-> <<222, 173>>] }

Octets(n, b) == [i \in 1..n |-> b]

KdcEncryptedDatas ==
    { [etype |-> e, kvno |-> kvno, cipher |-> cipher] :
          e \in {AES256_CTS_HMAC_SHA1_96, AES128_CTS_HMAC_SHA1_96,
                 AES256_CTS_HMAC_SHA384_192, 23, 0, 9999},
          kvno \in {None, Some(1)}, cipher \in {<<>>, <<222, 173>>} }

KdcEncryptionKeys ==
    { [key_type |-> t, key_value |-> Octets(n, b)] :
          t \in {AES256_CTS_HMAC_SHA1_96, AES128_CTS_HMAC_SHA1_96, 23, 9999},
          n \in {0, 16, 31, 32, 33}, b \in {0, 255} }

(***************************************************************************)
(* SpecKeys: one of the key-derivation entry points or of the conversions  *)
(* to EncryptedData / SessionKey is called once.                           *)
(***************************************************************************)
InitKeys ==
    /\ call \in {"from_encrypted_reply", "from_etype_info2", "EncryptedData", "SessionKey"}
    /\ pc = "start"
    /\ input \in
         CASE call = "from_encrypted_reply" ->
                { [encrypted_data |-> d, pa_data_etype_info2 |-> h,
                   realm |-> r, username |-> u, passphrase |-> p] :
                      d \in EncryptedDataSamples,
                      h \in {None} \cup {Some(l) : l \in SeqsUpTo(KeyHintSamples, MaxKeyHints)},
                      r \in Realms, u \in Usernames, p \in Passphrases }
           [] call = "from_etype_info2" ->
                { [etype_info2 |-> h, realm |-> r, username |-> u, passphrase |-> p] :
                      h \in KeyHintSamples, r \in Realms, u \in Usernames, p \in Passphrases }
           [] call = "EncryptedData" -> KdcEncryptedDatas
           [] call = "SessionKey" -> KdcEncryptionKeys
    /\ result = NoOutcome
    /\ trace = NoTrace

FromEncryptedReply ==
    /\ call = "from_encrypted_reply"
    /\ pc = "start"
    /\ result' = DerivedKey_from_encrypted_reply(input.encrypted_data,
                     input.pa_data_etype_info2, input.realm, input.username, input.passphrase)
    /\ pc' = "done"
    /\ UNCHANGED <<call, input, trace>>

FromEtypeInfo2 ==
    /\ call = "from_etype_info2"
    /\ pc = "start"
    /\ result' = DerivedKey_from_etype_info2(input.etype_info2, input.realm,
                     input.username, input.passphrase)
    /\ pc' = "done"
    /\ UNCHANGED <<call, input, trace>>

ConvertEncryptedData ==
    /\ call = "EncryptedData"
    /\ pc = "start"
    /\ result' = EncryptedData_try_from_KdcEncryptedData(input)
    /\ pc' = "done"
    /\ UNCHANGED <<call, input, trace>>

ConvertSessionKey ==
    /\ call = "SessionKey"
    /\ pc = "start"
    /\ result' = SessionKey_try_from(input)
    /\ pc' = "done"
    /\ UNCHANGED <<call, input, trace>>

NextKeys == FromEncryptedReply \/ FromEtypeInfo2 \/ ConvertEncryptedData \/ ConvertSessionKey

SpecKeys == InitKeys /\ [][NextKeys]_vars

(***************************************************************************)
(* Claims about key derivation and single-algorithm conversions            *)
(* (specification SpecKeys).                                               *)
(***************************************************************************)
Derived == call \in {"from_encrypted_reply", "from_etype_info2"} /\ pc = "done"

\* the AES256 hints supplied to the entry point, in order
SuppliedAes256Hints ==
    IF call = "from_etype_info2"
    THEN SelectSeq(<<input.etype_info2>>, IsAes256Hint)
    ELSE IF input.pa_data_etype_info2 = None THEN <<>>
         ELSE SelectSeq(input.pa_data_etype_info2[1], IsAes256Hint)

HintSelected == SuppliedAes256Hints # <<>>
SelectedHint == SuppliedAes256Hints[1]

BigEndianValue(b) == b[1] * 16777216 + b[2] * 65536 + b[3] * 256 + b[4]

ExpectedSalt ==
    IF HintSelected /\ SelectedHint.salt # None
    THEN SelectedHint.salt[1]
    ELSE input.realm \o input.username

ExpectedIterations ==
    IF HintSelected /\ SelectedHint.s2kparams # None
    THEN BigEndianValue(SelectedHint.s2kparams[1])
    ELSE 4096

\* C13: key derivation uses the first AES256 hint supplied: the salt is the
\* hint's salt if present, else realm ++ username; the iteration count is the
\* hint's 4-octet big-endian s2kparams if present, else the default 4096; with
\* no hint list or no AES256 hint in the list, from_encrypted_reply uses
\* realm ++ username and 4096.  The DerivedKey returned records that salt and
\* that count, and its key is the one derived from them.
C13_DerivationUsesFirstAes256Hint ==
    (/\ Derived
     /\ call = "from_etype_info2" => HintSelected
     /\ HintSelected /\ SelectedHint.s2kparams # None => Len(SelectedHint.s2kparams[1]) = 4)
    => /\ result.kind = "ok"
       /\ result.val.s = ExpectedSalt
       /\ result.val.i = ExpectedIterations
       /\ result.val.k = [passphrase |-> input.passphrase, salt |-> ExpectedSalt,
                          rounds |-> [hi |-> IF ExpectedIterations = 0 THEN 1 ELSE 0,
                                      lo |-> ExpectedIterations]]

C13_Witness ==
    /\ Derived
    /\ call = "from_encrypted_reply"
    /\ input.pa_data_etype_info2 # None
    /\ Len(input.pa_data_etype_info2[1]) = 2
    /\ input.pa_data_etype_info2[1][1].etype = 17
    /\ input.pa_data_etype_info2[1][2] =
         [etype |-> 18, salt |-> Some("EXAMPLE.ORGcarol"), s2kparams |-> Some(<<0, 1, 0, 2>>)]
    /\ result.kind = "ok"
    /\ result.val.s = "EXAMPLE.ORGcarol"
    /\ result.val.i = 65538

\* C14: in from_encrypted_reply and in from_etype_info2, a selected hint whose
\* s2kparams is present with a length other than 4 yields the
\* invalid-s2k-parameters error and no key; the default iteration count is
\* used only when the selected hint has no s2kparams at all.
C14_MalformedS2kIsAnErrorNeverAFallback ==
    (Derived /\ HintSelected)
    => /\ (SelectedHint.s2kparams # None /\ Len(SelectedHint.s2kparams[1]) # 4)
            => result = Err(PreauthInvalidS2KParams)
       /\ (result.kind = "ok" /\ SelectedHint.s2kparams # None)
            => /\ Len(SelectedHint.s2kparams[1]) = 4
               /\ result.val.i = BigEndianValue(SelectedHint.s2kparams[1])

C14_Witness ==
    /\ Derived
    /\ call = "from_encrypted_reply"
    /\ Len(SuppliedAes256Hints) = 2
    /\ SuppliedAes256Hints[1].s2kparams = Some(<<16, 0>>)
    /\ SuppliedAes256Hints[2].s2kparams = None
    /\ result = Err(PreauthInvalidS2KParams)

TwoPow32 == [hi |-> 1, lo |-> 0]

C16_OnlyAes256WhereOneAlgorithmIsNeeded ==
    pc = "done" =>
        /\ (call = "EncryptedData" /\ input.etype # 18)
              => result = Err(UnsupportedEncryption)
        /\ (call = "SessionKey" /\ input.key_type # 18)
              => result = Err(UnsupportedEncryption)
        /\ (call = "from_etype_info2" /\ input.etype_info2.etype # 18)
              => result = Err(UnsupportedEncryption)
        /\ (call = "SessionKey" /\ input.key_type = 18 /\ Len(input.key_value) # 32)
              => result = Err(InvalidEncryptionKey)

C16_Witness ==
    /\ pc = "done"
    /\ call = "SessionKey"
    /\ input.key_type = 18
    /\ Len(input.key_value) = 31
    /\ result = Err(InvalidEncryptionKey)

(***************************************************************************)
(* proto/mod.rs: Name from the wire's PrincipalName.                       *)
(***************************************************************************)
Principal(name, realm) == [variant |-> "Principal", name |-> name, realm |-> realm]
SrvInst(service, realm) == [variant |-> "SrvInst", service |-> service, realm |-> realm]
SrvHst(service, host, realm) ==
    [variant |-> "SrvHst", service |-> service, host |-> host, realm |-> realm]

\* name_string.get(i).unwrap(), with Rust's index i counted from 0
Has(name_string, i) == i + 1 <= Len(name_string)
UnwrapNone == Panic("Option::unwrap() on a None value")

\* TryFrom<PrincipalName> for Name: the realm is the last component
Name_try_from_PrincipalName(princ) ==
    LET name_type == princ.name_type
        name_string == princ.name_string
    IN  IF name_type = 1
        THEN IF ~Has(name_string, 0) \/ ~Has(name_string, 1) THEN UnwrapNone
             ELSE Ok(Principal(name_string[1], name_string[2]))
        ELSE IF name_type = 2
        THEN IF ~Has(name_string, 0) \/ ~Has(name_string, 1) THEN UnwrapNone
             ELSE Ok(SrvInst(name_string[1], name_string[2]))
        ELSE IF name_type = 3
        THEN IF ~Has(name_string, 0) \/ ~Has(name_string, 1) \/ ~Has(name_string, 2)
             THEN UnwrapNone
             ELSE Ok(SrvHst(name_string[1], name_string[2], name_string[3]))
        ELSE Panic("todo!()")

\* TryFrom<(PrincipalName, Realm)> for Name
Name_try_from_PrincipalName_Realm(princ, realm) ==
    LET name_type == princ.name_type
        name_string == princ.name_string
    IN  IF name_type = 1
        THEN IF ~Has(name_string, 0) THEN UnwrapNone
             ELSE Ok(Principal(name_string[1], realm))
        ELSE IF name_type = 2
        THEN IF ~Has(name_string, 0) THEN UnwrapNone
             ELSE Ok(SrvInst(name_string[1], realm))
        ELSE IF name_type = 3
        THEN IF ~Has(name_string, 0) \/ ~Has(name_string, 1) THEN UnwrapNone
             ELSE Ok(SrvHst(name_string[1], name_string[2], realm))
        ELSE Panic("todo!()")

\* components in a PrincipalName
MaxComponents == 3

NameTypes == {0, 1, 2, 3, 10}
Components == {"krbtgt", "host.example.com"}

PrincipalNames ==
    { [name_type |-> t, name_string |-> c] :
          t \in NameTypes, c \in SeqsUpTo(Components, MaxComponents) }

(***************************************************************************)
(* SpecName: a PrincipalName from the wire is converted into a Name, with  *)
(* the realm beside it ("princ_realm") or as its last component ("princ"). *)
(***************************************************************************)
InitName ==
    /\ call \in {"princ_realm", "princ"}
    /\ pc = "start"
    /\ input \in { [princ |-> p, realm |-> r] : p \in PrincipalNames, r \in Realms }
    /\ result = NoOutcome
    /\ trace = NoTrace

NameFromPrincipalNameAndRealm ==
    /\ call = "princ_realm"
    /\ pc = "start"
    /\ result' = Name_try_from_PrincipalName_Realm(input.princ, input.realm)
    /\ pc' = "done"
    /\ UNCHANGED <<call, input, trace>>

NameFromPrincipalName ==
    /\ call = "princ"
    /\ pc = "start"
    /\ result' = Name_try_from_PrincipalName(input.princ)
    /\ pc' = "done"
    /\ UNCHANGED <<call, input, trace>>

NextName == NameFromPrincipalNameAndRealm \/ NameFromPrincipalName

SpecName == InitName /\ [][NextName]_vars

(***************************************************************************)
(* Claims about Name (specification SpecName).                             *)
(***************************************************************************)
\* the number of name components a name type takes, besides the realm
Arity(name_type) == IF name_type = 3 THEN 2 ELSE 1

\* the name components of the input: all of them beside a realm, all but the
\* last when the last one is the realm
NameComponents ==
    IF call = "princ_realm" THEN Len(input.princ.name_string)
    ELSE Len(input.princ.name_string) - 1

\* C18: a Name is produced only from a name type 1, 2 or 3 and a component
\* list that is not empty and has exactly the arity of the name type (1, 1,
\* 2); an empty, too short or too long list, or another name type, never
\* produces a Name.
C18_NameOnlyFromMatchingArity ==
    (call \in {"princ_realm", "princ"} /\ pc = "done" /\ result.kind = "ok")
    => /\ input.princ.name_type \in {1, 2, 3}
       /\ input.princ.name_string # <<>>
       /\ NameComponents = Arity(input.princ.name_type)

(***************************************************************************)
(* proto/mod.rs: the encrypted timestamp and the encrypted reply part.     *)
(* A ciphertext is kept as the key, the key usage and the plaintext it was *)
(* made from; decrypting it with another key or usage fails its integrity  *)
(* check.                                                                  *)
(***************************************************************************)
MessageAuthenticationFailed == [e |-> "MessageAuthenticationFailed"]
DerEncodePaEncTsEnc == [e |-> "DerEncodePaEncTsEnc"]
DerDecodePaEncTsEnc == [e |-> "DerDecodePaEncTsEnc"]
DerDecodeEncKdcRepPart == [e |-> "DerDecodeEncKdcRepPart"]

\* crate::crypto
encrypt_aes256_cts_hmac_sha1_96(k, data, key_usage) ==
    Ok([key |-> k, usage |-> key_usage, plaintext |-> data])

decrypt_aes256_cts_hmac_sha1_96(k, data, key_usage) ==
    IF data.key = k /\ data.usage = key_usage
    THEN Ok(data.plaintext)
    ELSE Err(MessageAuthenticationFailed)

\* crate::asn1: the DER of a PaEncTsEnc and its decoding
PaEncTsEnc_to_der(paenctsenc) ==
    Ok([kind |-> "PaEncTsEnc", patimestamp |-> paenctsenc.patimestamp,
        pausec |-> paenctsenc.pausec])

PaEncTsEnc_from_der(data) ==
    IF data.kind = "PaEncTsEnc"
    THEN Ok([patimestamp |-> data.patimestamp, pausec |-> data.pausec])
    ELSE Err("der::Error")

TaggedEncKdcRepPart_from_der(data) ==
    IF data.kind = "TaggedEncKdcRepPart"
    THEN Ok([tag |-> data.tag, part |-> data.part])
    ELSE Err("der::Error")

\* KerberosTime::to_system_time, and SystemTime + Duration::from_micros
KerberosTime_to_system_time(t) == [secs |-> t.secs, nanos |-> 0]

AddMicros(stime, usecs) ==
    LET nanos == stime.nanos + (usecs % 1000000) * 1000 IN
    [secs |-> stime.secs + (usecs \div 1000000) + (nanos \div 1000000000),
     nanos |-> nanos % 1000000000]

\* mutant: the timestamp is encrypted with the key usage of the reply part
DerivedKey_encrypt_pa_enc_timestamp_ReplyUsage(self, paenctsenc) ==
    LET data == PaEncTsEnc_to_der(paenctsenc) IN
    IF data.kind # "ok" THEN Err(DerEncodePaEncTsEnc)
    ELSE LET enc == encrypt_aes256_cts_hmac_sha1_96(self.k, data.val, 3) IN
         IF enc.kind = "ok"
         THEN Ok([variant |-> "Aes256CtsHmacSha196", kvno |-> None, data |-> enc.val])
         ELSE enc

DerivedKey_encrypt_pa_enc_timestamp(self, paenctsenc) ==
    LET data == PaEncTsEnc_to_der(paenctsenc) IN
    IF data.kind # "ok" THEN Err(DerEncodePaEncTsEnc)
    ELSE LET key_usage == 1
             enc == encrypt_aes256_cts_hmac_sha1_96(self.k, data.val, key_usage)
         IN  IF enc.kind = "ok"
             THEN Ok([variant |-> "Aes256CtsHmacSha196", kvno |-> None, data |-> enc.val])
             ELSE enc

EncryptedData_decrypt_data(self, base_key, key_usage) ==
    decrypt_aes256_cts_hmac_sha1_96(base_key.k, self.data, key_usage)

EncryptedData_decrypt_pa_enc_timestamp(self, base_key) ==
    LET data == EncryptedData_decrypt_data(self, base_key, 1) IN
    IF data.kind # "ok" THEN data
    ELSE LET paenctsenc == PaEncTsEnc_from_der(data.val) IN
         IF paenctsenc.kind # "ok" THEN Err(DerDecodePaEncTsEnc)
         ELSE LET stime == KerberosTime_to_system_time(paenctsenc.val.patimestamp)
                  usecs == unwrap_or(paenctsenc.val.pausec, 0)
              IN  Ok(AddMicros(stime, usecs))

MapToSystemTime(t) == IF t = None THEN None ELSE Some(KerberosTime_to_system_time(t[1]))

\* TryFrom<EncKdcRepPart> for KdcReplyPart
KdcReplyPart_try_from(enc_kdc_rep_part) ==
    LET key == SessionKey_try_from(enc_kdc_rep_part.key) IN
    IF key.kind # "ok" THEN key
    ELSE LET server == Name_try_from_PrincipalName_Realm(enc_kdc_rep_part.server_name,
                                                          enc_kdc_rep_part.server_realm)
         IN  IF server.kind # "ok" THEN server
             ELSE Ok([key |-> key.val,
                      nonce |-> enc_kdc_rep_part.nonce,
                      key_expiration |-> MapToSystemTime(enc_kdc_rep_part.key_expiration),
                      flags |-> enc_kdc_rep_part.flags,
                      auth_time |-> KerberosTime_to_system_time(enc_kdc_rep_part.auth_time),
                      start_time |-> MapToSystemTime(enc_kdc_rep_part.start_time),
                      end_time |-> KerberosTime_to_system_time(enc_kdc_rep_part.end_time),
                      renew_until |-> MapToSystemTime(enc_kdc_rep_part.renew_till),
                      server |-> server.val])

EncryptedData_decrypt_enc_kdc_rep(self, base_key) ==
    LET data == EncryptedData_decrypt_data(self, base_key, 3) IN
    IF data.kind # "ok" THEN data
    ELSE LET tagged_kdc_enc_part == TaggedEncKdcRepPart_from_der(data.val) IN
         IF tagged_kdc_enc_part.kind # "ok" THEN Err(DerDecodeEncKdcRepPart)
         ELSE KdcReplyPart_try_from(tagged_kdc_enc_part.val.part)

DerivedKeySamples ==
    { Aes256DerivedKey(derive_key_aes256_cts_hmac_sha1_96(p, r \o u, RFC_PKBDF2_SHA1_ITER).val,
                       RFC_PKBDF2_SHA1_ITER, r \o u) :
          p \in Passphrases, r \in Realms, u \in Usernames }

PaEncTsEncs ==
    { [patimestamp |-> [secs |-> t], pausec |-> us] :
          t \in {0, 1700003600},
          us \in {None, Some(0), Some(1), Some(999999), Some(1000000)} }

EncKdcRepParts ==
    { [key |-> k, server_name |-> sn, server_realm |-> "EXAMPLE.COM",
       nonce |-> 305419896, flags |-> 0, key_expiration |-> None,
       auth_time |-> [secs |-> 1700000000], start_time |-> Some([secs |-> 1700000000]),
       end_time |-> [secs |-> 1700036000], renew_till |-> None] :
          k \in { [key_type |-> AES256_CTS_HMAC_SHA1_96, key_value |-> Octets(32, 7)],
                  [key_type |-> AES128_CTS_HMAC_SHA1_96, key_value |-> Octets(16, 7)] },
          sn \in { [name_type |-> 2, name_string |-> <<"krbtgt", "EXAMPLE.COM">>],
                   [name_type |-> 2, name_string |-> <<>>] } }

\* what the KDC's encrypted part can hold once decrypted
ReplyPlaintexts ==
    { [kind |-> "TaggedEncKdcRepPart", tag |-> t, part |-> p] :
          t \in {"EncAsRepPart", "EncTgsRepPart"}, p \in EncKdcRepParts }
    \cup { [kind |-> "opaque"] }

\* encrypted parts as a KDC makes them, with either key usage
KdcEncParts ==
    { [variant |-> "Aes256CtsHmacSha196", kvno |-> None,
       data |-> [key |-> k.k, usage |-> u, plaintext |-> pt]] :
          k \in DerivedKeySamples, u \in {1, 3}, pt \in ReplyPlaintexts }

(***************************************************************************)
(* SpecEncTs: a timestamp is encrypted for pre-authentication and then     *)
(* decrypted ("enc_timestamp"), or the encrypted part of a KDC's reply is  *)
(* decrypted ("kdc_rep").                                                  *)
(***************************************************************************)
InitEncTs ==
    /\ call \in {"enc_timestamp", "kdc_rep"}
    /\ pc = "start"
    /\ input \in
         IF call = "enc_timestamp"
         THEN { [key |-> k, paenctsenc |-> ts, base_key |-> b] :
                    k \in DerivedKeySamples, ts \in PaEncTsEncs, b \in DerivedKeySamples }
         ELSE { [enc_part |-> e, base_key |-> b] : e \in KdcEncParts, b \in DerivedKeySamples }
    /\ result = NoOutcome
    /\ trace = [enc |-> NoOutcome]

EncryptPaEncTimestamp ==
    /\ call = "enc_timestamp"
    /\ pc = "start"
    /\ LET enc == DerivedKey_encrypt_pa_enc_timestamp(input.key, input.paenctsenc) IN
       /\ trace' = [enc |-> enc]
       /\ IF enc.kind = "ok"
          THEN pc' = "encrypted" /\ UNCHANGED result
          ELSE pc' = "done" /\ result' = enc
    /\ UNCHANGED <<call, input>>

DecryptPaEncTimestamp ==
    /\ call = "enc_timestamp"
    /\ pc = "encrypted"
    /\ result' = EncryptedData_decrypt_pa_enc_timestamp(trace.enc.val, input.base_key)
    /\ pc' = "done"
    /\ UNCHANGED <<call, input, trace>>

DecryptEncKdcRep ==
    /\ call = "kdc_rep"
    /\ pc = "start"
    /\ result' = EncryptedData_decrypt_enc_kdc_rep(input.enc_part, input.base_key)
    /\ pc' = "done"
    /\ UNCHANGED <<call, input, trace>>

NextEncTs == EncryptPaEncTimestamp \/ DecryptPaEncTimestamp \/ DecryptEncKdcRep

SpecEncTs == InitEncTs /\ [][NextEncTs]_vars

(***************************************************************************)
(* Claims about the encrypted timestamp (specification SpecEncTs).         *)
(***************************************************************************)
\* the instant a timestamp structure stands for: its time plus its microseconds
InstantOf(ts) ==
    LET us == IF ts.pausec = None THEN 0 ELSE ts.pausec[1] IN
    [secs |-> ts.patimestamp.secs + us \div 1000000, nanos |-> (us % 1000000) * 1000]

\* C17: decrypt_pa_enc_timestamp, applied with the same key to the payload
\* that encrypt_pa_enc_timestamp returns for a timestamp structure, succeeds
\* and returns the structure's time plus its microseconds; the payload is
\* made with key usage 1, and decrypt_enc_kdc_rep succeeds only on a payload
\* made with key usage 3 (and does not fail the integrity check on one made
\* with the same key and key usage 3).
C17_EncTimestampRoundTrip ==
    /\ (call = "enc_timestamp" /\ pc # "start")
          => /\ trace.enc.kind = "ok"
             /\ trace.enc.val.data.usage = 1
    /\ (call = "enc_timestamp" /\ pc = "done" /\ input.base_key = input.key)
          => result = Ok(InstantOf(input.paenctsenc))
    /\ (call = "kdc_rep" /\ pc = "done")
          => /\ result.kind = "ok" => input.enc_part.data.usage = 3
             /\ (input.enc_part.data.usage = 3 /\ input.enc_part.data.key = input.base_key.k)
                   => result # Err(MessageAuthenticationFailed)

C17_Witness ==
    /\ call = "enc_timestamp"
    /\ pc = "done"
    /\ input.base_key = input.key
    /\ input.paenctsenc.pausec = Some(999999)
    /\ result = Ok([secs |-> 1700003600, nanos |-> 999999000])

(***************************************************************************)
(* lib.rs: KerberosTcpCodec, the record-marking codec.                     *)
(* The serialized message is kept as its length; a fragment is its header  *)
(* (last-fragment flag, data length, and the four octets they are written  *)
(* as) and the part of the message it carries (from, len).                 *)
(***************************************************************************)
DEFAULT_MAX_SIZE == 32768

\* xdr_codec::record: the buffer size XdrRecordWriter::new gives the writer
WRBUF == 65536

\* KerberosTcpCodec::default()
KerberosTcpCodec_default == [max_size |-> DEFAULT_MAX_SIZE]

Min(a, b) == IF a <= b THEN a ELSE b

\* the record header, written highest octet first; the top bit is the
\* last-fragment flag
HeaderOctets(last, len) ==
    << (IF last THEN 128 ELSE 0) + (len \div 16777216), (len \div 65536) % 256,
       (len \div 256) % 256, len % 256 >>

Fragment(last, from, len) ==
    [last |-> last, len |-> len, header |-> HeaderOctets(last, len), from |-> from]

\* XdrRecordWriter::write_all followed by flush_eor(false): a fragment each
\* time the writer's buffer of bufsz octets is full, and one for the rest
RECURSIVE XdrRecordWriter_write_all(_, _, _)
XdrRecordWriter_write_all(from, remaining, bufsz) ==
    IF remaining = 0 THEN <<>>
    ELSE LET n == Min(remaining, bufsz) IN
         <<Fragment(FALSE, from, n)>> \o XdrRecordWriter_write_all(from + n, remaining - n, bufsz)

\* what the writer does when it is dropped after flush_eor(false): nothing,
\* or one more header that ends the record with an empty fragment
XdrRecordWriter_drop(from) == { <<>>, <<Fragment(TRUE, from, 0)>> }

\* Encoder::encode: the outcomes for a message whose to_der gives der, on a
\* buffer that holds buf_len octets, in a build with or without debug
\* assertions
KerberosTcpCodec_encode(self, der, buf_len, debug_assertions) ==
    IF debug_assertions /\ buf_len # 0
    THEN {Panic("debug_assert!(buf.is_empty())")}
    ELSE IF der.kind = "panic" THEN {der}
    ELSE IF der.kind = "err" THEN {Err([e |-> "io::Error", kind |-> "InvalidInput"])}
    ELSE IF debug_assertions /\ buf_len > self.max_size
    THEN {Panic("debug_assert!(buf.len() <= self.max_size)")}
    ELSE { Ok([before |-> buf_len,
               fragments |-> XdrRecordWriter_write_all(1, der.val.len, WRBUF) \o tail]) :
             tail \in XdrRecordWriter_drop(der.val.len + 1) }

\* Decoder::decode
KerberosTcpCodec_decode(self, buf) == Panic("todo!()")

\* lengths of serialized messages
MessageLengths ==
    {0, 1, 169, 100000} \cup { k * 16384 + d : k \in 1..8, d \in {-1, 0, 1} }

ToDerOutcomes ==
    { Ok([len |-> l]) : l \in MessageLengths }
    \cup { Err("der::Error"), Panic("Result::unwrap() on an Err value") }

\* octets handed to the decoder at a time
ChunkSizes == {1, 3, 4, 173, 65540}

RECURSIVE WireLength(_)
WireLength(fragments) ==
    IF fragments = <<>> THEN 0
    ELSE 4 + Head(fragments).len + WireLength(Tail(fragments))

(***************************************************************************)
(* SpecCodec: a message is encoded by the codec; the octets written are    *)
(* then handed, chunk after chunk, to the decoder of a codec.              *)
(***************************************************************************)
InitCodec ==
    /\ call = "codec"
    /\ pc = "start"
    /\ input \in { [codec |-> KerberosTcpCodec_default, der |-> d, buf_len |-> b,
                    debug_assertions |-> dbg] :
                      d \in ToDerOutcomes, b \in {0, 5}, dbg \in BOOLEAN }
    /\ result = NoOutcome
    /\ trace = [wire |-> NoOutcome, delivered |-> 0]

Encode ==
    /\ call = "codec"
    /\ pc = "start"
    /\ \E wire \in KerberosTcpCodec_encode(input.codec, input.der, input.buf_len,
                                           input.debug_assertions) :
          /\ trace' = [trace EXCEPT !.wire = wire]
          /\ IF wire.kind = "ok" /\ wire.val.fragments # <<>>
             THEN pc' = "encoded" /\ UNCHANGED result
             ELSE pc' = "done" /\ result' = wire
    /\ UNCHANGED <<call, input>>

\* the next chunk arrives and decode is called on what has arrived
DecodeChunk ==
    /\ call = "codec"
    /\ pc = "encoded"
    /\ \E n \in ChunkSizes :
          LET delivered == Min(trace.delivered + n, WireLength(trace.wire.val.fragments)) IN
          /\ trace' = [trace EXCEPT !.delivered = delivered]
          /\ result' = KerberosTcpCodec_decode(input.codec, delivered)
          /\ pc' = IF result'.kind = "ok" /\ result'.val = None THEN "encoded" ELSE "done"
    /\ UNCHANGED <<call, input>>

NextCodec == Encode \/ DecodeChunk

SpecCodec == InitCodec /\ [][NextCodec]_vars

(***************************************************************************)
(* Claims about the codec (specification SpecCodec).                       *)
(***************************************************************************)
Encoded == call = "codec" /\ pc # "start" /\ trace.wire.kind = "ok"

CeilDiv(a, b) == (a + b - 1) \div b

RECURSIVE DataLength(_)
DataLength(fragments) ==
    IF fragments = <<>> THEN 0 ELSE Head(fragments).len + DataLength(Tail(fragments))

\* the fragments' data, one after the other, is the message from..
RECURSIVE IsMessageFrom(_, _)
IsMessageFrom(fragments, from) ==
    \/ fragments = <<>>
    \/ /\ Head(fragments).from = from
       /\ IsMessageFrom(Tail(fragments), from + Head(fragments).len)

\* C19: encoding a message whose serialized length L exceeds the codec's
\* maximum fragment size M writes ceil(L / M) fragments, each a 4-octet
\* big-endian header followed by at most M data octets; the data lengths sum
\* to L and the data, concatenated, is the serialized message.
C19_FragmentsOfAtMostMaxSize ==
    (Encoded /\ input.der.val.len > input.codec.max_size)
    => LET fragments == trace.wire.val.fragments
           L == input.der.val.len
           M == input.codec.max_size
       IN  /\ Len(fragments) = CeilDiv(L, M)
           /\ \A i \in 1..Len(fragments) :
                 /\ fragments[i].len <= M
                 /\ fragments[i].header[1] % 128 = fragments[i].len \div 16777216
                 /\ fragments[i].header[2] = (fragments[i].len \div 65536) % 256
                 /\ fragments[i].header[3] = (fragments[i].len \div 256) % 256
                 /\ fragments[i].header[4] = fragments[i].len % 256
           /\ DataLength(fragments) = L
           /\ IsMessageFrom(fragments, 1)

\* C20: whatever the chunks in which the encoded fragments arrive, a decode
\* call made while only part of them has arrived returns 'need more bytes'
\* (no item, no error), and the call made once all have arrived returns the
\* one message that was encoded.
C20_DecodeWaitsThenYieldsMessage ==
    (call = "codec" /\ trace.delivered > 0)
    => /\ result.kind = "ok"
       /\ trace.delivered < WireLength(trace.wire.val.fragments) => result.val = None
       /\ trace.delivered = WireLength(trace.wire.val.fragments)
             => result.val = Some([len |-> input.der.val.len])

\* the error a decoder gives for a fragment larger than the codec allows
FrameTooLarge == [e |-> "io::Error", kind |-> "FrameTooLarge"]

\* the first fragment header has arrived whole and its length field is
\* greater than the codec's maximum size
OversizedHeaderArrived ==
    /\ call = "codec"
    /\ trace.wire.kind = "ok"
    /\ trace.wire.val.fragments # <<>>
    /\ trace.delivered >= 4
    /\ trace.wire.val.fragments[1].len > input.codec.max_size

\* C21: when the decoder reads a fragment header whose length field is
\* greater than the configured maximum size, decode returns the
\* frame-too-large error at once.
C21_OversizedFrameRejected ==
    OversizedHeaderArrived => result = Err(FrameTooLarge)

(***************************************************************************)
(* Claims about the comparator (specification SpecSort).                   *)
(***************************************************************************)
Reverse(ordering) ==
    IF ordering = "Less" THEN "Greater"
    ELSE IF ordering = "Greater" THEN "Less" ELSE "Equal"

\* C24: sort_cryptographic_strength is a consistent ordering of the hints it
\* is given: compare(a, a) is Equal, compare(a, b) is the reverse of
\* compare(b, a) (two AES256 hints, or two AES128 hints, compare Equal), and
\* it is transitive.
C24_ComparatorIsConsistent ==
    (call = "sort" /\ pc = "done") =>
        \A i, j, k \in 1..Len(input) :
            LET a == input[i]
                b == input[j]
                c == input[k]
            IN  /\ sort_cryptographic_strength(a, a) = "Equal"
                /\ sort_cryptographic_strength(a, b) = Reverse(sort_cryptographic_strength(b, a))
                /\ (a.etype = b.etype /\ a.etype \in {17, 18})
                      => sort_cryptographic_strength(a, b) = "Equal"
                /\ (sort_cryptographic_strength(a, b) = "Less"
                    /\ sort_cryptographic_strength(b, c) = "Less")
                      => sort_cryptographic_strength(a, c) = "Less"

(***************************************************************************)
(* proto/mod.rs: fmt::Debug for DerivedKey, SessionKey and KdcPrimaryKey.  *)
(***************************************************************************)
\* Debug of a &str: the string between double quotes
DebugStr(str) == "\"" \o str \o "\""

\* mutant: the rendering #[derive(Debug)] would give, key octets included
DerivedKey_fmt_Derived(self) ==
    "Aes256CtsHmacSha196 { k: " \o ToString(self.k) \o ", i: " \o ToString(self.i)
        \o ", s: " \o DebugStr(self.s) \o " }"

DerivedKey_fmt(self) ==
    "DerivedKey { k: " \o DebugStr("Aes256HmacSha1") \o ", i: " \o ToString(self.i)
        \o ", s: " \o DebugStr(self.s) \o " }"

SessionKey_fmt(self) == "SessionKey { k: " \o DebugStr("Aes256") \o " }"

KdcPrimaryKey_fmt(self) == "KdcPrimaryKey { k: " \o DebugStr("Aes256") \o " }"

DebugDerivedKeys ==
    { Aes256DerivedKey(derive_key_aes256_cts_hmac_sha1_96(p, salt, i).val, i, salt) :
          p \in {"Password123", "hunter2"},
          salt \in {"EXAMPLE.COMalice", "EXAMPLE.COMbob"},
          i \in {RFC_PKBDF2_SHA1_ITER, 0, 65538} }

DebugSessionKeys ==
    { [variant |-> "Aes256CtsHmacSha196", k |-> Octets(AES_256_KEY_LEN, b)] : b \in {0, 7, 255} }

DebugKdcPrimaryKeys ==
    { [variant |-> "Aes256", k |-> Octets(AES_256_KEY_LEN, b)] : b \in {0, 7, 255} }

(***************************************************************************)
(* SpecDebug: two keys of one kind are rendered with {:?}.                 *)
(***************************************************************************)
InitDebug ==
    /\ call \in {"DerivedKey", "SessionKey", "KdcPrimaryKey"}
    /\ pc = "start"
    /\ input \in
         LET keys == CASE call = "DerivedKey" -> DebugDerivedKeys
                       [] call = "SessionKey" -> DebugSessionKeys
                       [] call = "KdcPrimaryKey" -> DebugKdcPrimaryKeys
         IN  { [a |-> a, b |-> b] : a \in keys, b \in keys }
    /\ result = NoOutcome
    /\ trace = NoTrace

DebugDerivedKey ==
    /\ call = "DerivedKey"
    /\ pc = "start"
    /\ result' = [a |-> DerivedKey_fmt(input.a), b |-> DerivedKey_fmt(input.b)]
    /\ pc' = "done"
    /\ UNCHANGED <<call, input, trace>>

DebugSessionKey ==
    /\ call = "SessionKey"
    /\ pc = "start"
    /\ result' = [a |-> SessionKey_fmt(input.a), b |-> SessionKey_fmt(input.b)]
    /\ pc' = "done"
    /\ UNCHANGED <<call, input, trace>>

DebugKdcPrimaryKey ==
    /\ call = "KdcPrimaryKey"
    /\ pc = "start"
    /\ result' = [a |-> KdcPrimaryKey_fmt(input.a), b |-> KdcPrimaryKey_fmt(input.b)]
    /\ pc' = "done"
    /\ UNCHANGED <<call, input, trace>>

NextDebug == DebugDerivedKey \/ DebugSessionKey \/ DebugKdcPrimaryKey

SpecDebug == InitDebug /\ [][NextDebug]_vars

(***************************************************************************)
(* Claims about the rendering of keys (specification SpecDebug).           *)
(***************************************************************************)
\* the two keys differ in nothing but their key octets
DifferOnlyInKeyOctets ==
    [input.a EXCEPT !.k = input.b.k] = input.b

\* C22: the Debug rendering of a DerivedKey, a SessionKey or a KdcPrimaryKey
\* does not depend on the key octets: two keys that differ only in their key
\* octets render identically.
C22_DebugHidesKeyOctets ==
    (call \in {"DerivedKey", "SessionKey", "KdcPrimaryKey"} /\ pc = "done"
     /\ DifferOnlyInKeyOctets)
    => result.a = result.b

C22_Witness ==
    /\ call = "DerivedKey"
    /\ pc = "done"
    /\ input.a.k # input.b.k
    /\ DifferOnlyInKeyOctets
    /\ result.a = "DerivedKey { k: \"Aes256HmacSha1\", i: 4096, s: \"EXAMPLE.COMalice\" }"
    /\ result.b = result.a

(***************************************************************************)
(* proto/mod.rs: Ticket from and to the wire's ticket.                     *)
(***************************************************************************)
\* KerberosString(Ia5String::new(str).unwrap()) for each string of strs
RECURSIVE KerberosStrings(_)
KerberosStrings(strs) ==
    IF strs = <<>> THEN Ok(<<>>)
    ELSE LET first == Ia5String_new(Head(strs))
             rest == KerberosStrings(Tail(strs))
         IN  IF first.kind # "ok" THEN Panic("Result::unwrap() on an Err value")
             ELSE IF rest.kind # "ok" THEN rest
             ELSE Ok(<<first.val>> \o rest.val)

\* TryInto<Realm> for &Name
Name_try_into_Realm(self) ==
    LET realm == KerberosStrings(<<self.realm>>) IN
    IF realm.kind # "ok" THEN realm ELSE Ok(realm.val[1])

\* TryInto<PrincipalName> for &Name: the realm is made the last component
Name_try_into_PrincipalName(self) ==
    LET name_type == IF self.variant = "Principal" THEN 1
                     ELSE IF self.variant = "SrvInst" THEN 2 ELSE 3
        name_string ==
            KerberosStrings(IF self.variant = "Principal" THEN <<self.name, self.realm>>
                            ELSE IF self.variant = "SrvInst" THEN <<self.service, self.realm>>
                            ELSE <<self.service, self.host, self.realm>>)
    IN  IF name_string.kind # "ok" THEN name_string
        ELSE Ok([name_type |-> name_type, name_string |-> name_string.val])

\* TryInto<KdcEncryptedData> for EncryptedData (OctetString::new takes every
\* cipher of the lengths drawn here)
EncryptedData_try_into(self) ==
    Ok([etype |-> AES256_CTS_HMAC_SHA1_96, kvno |-> self.kvno, cipher |-> self.data])

\* TryFrom<Asn1Ticket> for Ticket
Ticket_try_from(tkt) ==
    LET service == Name_try_from_PrincipalName_Realm(tkt.sname, tkt.realm) IN
    IF service.kind # "ok" THEN service
    ELSE LET enc_part == EncryptedData_try_from_KdcEncryptedData(tkt.enc_part) IN
         IF enc_part.kind # "ok" THEN enc_part
         ELSE Ok([tkt_vno |-> tkt.tkt_vno, service |-> service.val,
                  enc_part |-> enc_part.val])

\* TryInto<Asn1Ticket> for Ticket
Ticket_try_into(self) ==
    LET realm == Name_try_into_Realm(self.service) IN
    IF realm.kind # "ok" THEN realm
    ELSE LET sname == Name_try_into_PrincipalName(self.service) IN
         IF sname.kind # "ok" THEN sname
         ELSE LET enc_part == EncryptedData_try_into(self.enc_part) IN
              IF enc_part.kind # "ok" THEN enc_part
              ELSE Ok([tkt_vno |-> self.tkt_vno, realm |-> realm.val,
                       sname |-> sname.val, enc_part |-> enc_part.val])

Asn1Tickets ==
    { [tkt_vno |-> 5, realm |-> r, sname |-> sn, enc_part |-> e] :
          r \in Realms, sn \in PrincipalNames, e \in KdcEncryptedDatas }

(***************************************************************************)
(* SpecTicket: a ticket from the wire is converted into a Ticket, and the  *)
(* Ticket back into the wire's form.                                       *)
(***************************************************************************)
InitTicket ==
    /\ call = "ticket"
    /\ pc = "start"
    /\ input \in Asn1Tickets
    /\ result = NoOutcome
    /\ trace = [ticket |-> NoOutcome]

TicketFromWire ==
    /\ call = "ticket"
    /\ pc = "start"
    /\ LET ticket == Ticket_try_from(input) IN
       /\ trace' = [ticket |-> ticket]
       /\ IF ticket.kind = "ok"
          THEN pc' = "converted" /\ UNCHANGED result
          ELSE pc' = "done" /\ result' = ticket
    /\ UNCHANGED <<call, input>>

TicketToWire ==
    /\ call = "ticket"
    /\ pc = "converted"
    /\ result' = Ticket_try_into(trace.ticket.val)
    /\ pc' = "done"
    /\ UNCHANGED <<call, input, trace>>

NextTicket == TicketFromWire \/ TicketToWire

SpecTicket == InitTicket /\ [][NextTicket]_vars

(***************************************************************************)
(* Claims about Ticket (specification SpecTicket).                         *)
(***************************************************************************)
\* the wire ticket has a supported enc-part and a service name of type 1, 2
\* or 3 with the number of components of its type
IsRegularTicket ==
    /\ input.enc_part.etype = 18
    /\ input.sname.name_type \in {1, 2, 3}
    /\ Len(input.sname.name_string) = Arity(input.sname.name_type)

\* C25: a wire ticket with a supported enc-part and a service name of type
\* 1, 2 or 3 with the matching number of components, converted to a Ticket
\* and back, gives the same version, realm, service name type, service name
\* components and enc-part (etype, kvno, cipher): no realm component is
\* added to or removed from the service name.
C25_TicketRoundTrip ==
    (call = "ticket" /\ pc = "done" /\ IsRegularTicket)
    => /\ result.kind = "ok"
       /\ result.val.tkt_vno = input.tkt_vno
       /\ result.val.realm = input.realm
       /\ result.val.enc_part = input.enc_part
       /\ result.val.sname.name_type = input.sname.name_type
       /\ result.val.sname.name_string = input.sname.name_string

====
